---- MODULE Spec2Model ----
(***************************************************************************)
(* Multi-region Prometheus request router                                  *)
(* (src/src/prometheus_mcp_server/server.py).                              *)
(*                                                                         *)
(* Strings that the code lowercases, compares or sorts (region names) are  *)
(* sequences of one-character strings.  Opaque strings (tokens, header     *)
(* values, queries) are TLA+ strings; Python's None is NoneStr for them    *)
(* and None for region names.                                              *)
(***************************************************************************)
EXTENDS Integers, Sequences, FiniteSets, TLC

VARIABLES
    regions,                   \* config.regions: region name -> RegionConfig
    default_region,            \* config.default_region
    org_id,                    \* config.org_id
    disable_prometheus_links,  \* config.disable_prometheus_links
    call,                      \* the most recent invocation: operation and arguments
    outcome,                   \* what that invocation returned or raised
    inner,                     \* what make_prometheus_request gave that invocation
    outbound,                  \* the requests.get calls that invocation issued, in order
    _metrics_cache,            \* cache key -> [data, timestamp]
    now,                       \* what time.time() returns
    in_flight                  \* caller -> where its get_cached_metrics call stands

vars == <<regions, default_region, org_id, disable_prometheus_links,
          call, outcome, inner, outbound, _metrics_cache, now, in_flight>>

config == <<regions, default_region, org_id, disable_prometheus_links>>

cache == <<_metrics_cache, now>>

-----------------------------------------------------------------------------
(* Bounds *)

MaxRegions == 2

-----------------------------------------------------------------------------
(* Python values *)

None == <<"None">>
NoneStr == "<None>"

\* bool(x) of an Optional[str]
Truthy(x) == x /= NoneStr /\ x /= ""

\* str.lower(), character by character
ToLower == ("A" :> "a") @@ ("B" :> "b")

LowerChar(c) == IF c \in DOMAIN ToLower THEN ToLower[c] ELSE c

Lower(s) == [i \in DOMAIN s |-> LowerChar(s[i])]

\* code points, for the ordering of str
Ord == ("A" :> 65) @@ ("B" :> 66) @@ ("a" :> 97) @@ ("b" :> 98) @@ ("d" :> 100)
       @@ ("e" :> 101) @@ ("f" :> 102) @@ ("l" :> 108) @@ ("t" :> 116) @@ ("u" :> 117)

\* s < t for str: lexicographic by code point, a proper prefix sorts first
RECURSIVE StrLess(_, _)
StrLess(s, t) ==
    IF t = <<>> THEN FALSE
    ELSE IF s = <<>> THEN TRUE
    ELSE IF Ord[Head(s)] /= Ord[Head(t)] THEN Ord[Head(s)] < Ord[Head(t)]
    ELSE StrLess(Tail(s), Tail(t))

\* sorted(..., reverse=True)
SortedDescending(S) ==
    LET RECURSIVE Build(_)
        Build(R) == IF R = {} THEN <<>>
                    ELSE LET m == CHOOSE x \in R : \A y \in R \ {x} : StrLess(y, x)
                         IN  <<m>> \o Build(R \ {m})
    IN  Build(S)

\* sorted(d.keys()) of a dict with str keys
Sorted(S) ==
    LET RECURSIVE Build(_)
        Build(R) == IF R = {} THEN <<>>
                    ELSE LET m == CHOOSE x \in R : \A y \in R \ {x} : StrLess(x, y)
                         IN  <<m>> \o Build(R \ {m})
    IN  Build(S)

\* dict.update
Update(h, u) ==
    [k \in DOMAIN h \cup DOMAIN u |-> IF k \in DOMAIN u THEN u[k] ELSE h[k]]

EmptyDict == <<>>

-----------------------------------------------------------------------------
(* Exceptions *)

\* the classes an except clause matches each raised class against
Bases(cls) ==
    CASE cls = "ValueError" -> {"ValueError", "Exception"}
      [] cls = "KeyError" -> {"KeyError", "Exception"}
      [] cls = "requests.ConnectionError" -> {"requests.RequestException", "Exception"}
      [] cls = "requests.HTTPError" -> {"requests.RequestException", "Exception"}
      [] cls = "requests.JSONDecodeError" ->
            {"requests.RequestException", "json.JSONDecodeError", "ValueError", "Exception"}
      [] cls = "json.JSONDecodeError" -> {"json.JSONDecodeError", "ValueError", "Exception"}
      [] OTHER -> {"Exception"}

IsInstance(e, cls) == cls \in Bases(e.cls)

Exc(cls, text, name, available, detail) ==
    [cls |-> cls, text |-> text, name |-> name, available |-> available, detail |-> detail]

NoExc == Exc("", "", <<>>, <<>>, "")

Raise(e) == [raised |-> TRUE, exc |-> e, value |-> <<>>]

Return(v) == [raised |-> FALSE, exc |-> NoExc, value |-> v]

-----------------------------------------------------------------------------
(* Region Registry *)

RegionConfig(url, verify, username, password, token, custom_headers) ==
    [url |-> url, url_ssl_verify |-> verify, username |-> username,
     password |-> password, token |-> token, custom_headers |-> custom_headers]

\* mutation of get_region_config: the name is looked up as given, not lowercased
get_region_config_no_lower(region) ==
    LET r == IF region = None THEN default_region ELSE region
    IN  IF r \notin DOMAIN regions
        THEN Raise(Exc("ValueError",
                       "Region '{region}' is not configured. Available regions: {available_regions}",
                       r, Sorted(DOMAIN regions), ""))
        ELSE Return(<<r, regions[r]>>)

\* mutation of get_region_config: the available names are listed in descending order
get_region_config_reverse_sorted(region) ==
    LET r == IF region = None THEN default_region ELSE region
        region_normalized == Lower(r)
    IN  IF region_normalized \notin DOMAIN regions
        THEN Raise(Exc("ValueError",
                       "Region '{region}' is not configured. Available regions: {available_regions}",
                       r, SortedDescending(DOMAIN regions), ""))
        ELSE Return(<<region_normalized, regions[region_normalized]>>)

\* lines 274-298
get_region_config(region) ==
    LET r == IF region = None THEN default_region ELSE region
        region_normalized == Lower(r)
    IN  IF region_normalized \notin DOMAIN regions
        THEN Raise(Exc("ValueError",
                       "Region '{region}' is not configured. Available regions: {available_regions}",
                       r, Sorted(DOMAIN regions), ""))
        ELSE Return(<<region_normalized, regions[region_normalized]>>)

-----------------------------------------------------------------------------
(* Auth Resolver *)

AuthDict(token) ==
    [kind |-> "dict", headers |-> ("Authorization" :> <<"Bearer ", token>>),
     username |-> NoneStr, password |-> NoneStr]

AuthBasic(username, password) ==
    [kind |-> "HTTPBasicAuth", headers |-> EmptyDict,
     username |-> username, password |-> password]

AuthNone == [kind |-> "None", headers |-> EmptyDict, username |-> NoneStr, password |-> NoneStr]

\* mutation of get_prometheus_auth: basic auth is tried before the token
get_prometheus_auth_basic_first(region_config) ==
    IF Truthy(region_config.username) /\ Truthy(region_config.password)
    THEN AuthBasic(region_config.username, region_config.password)
    ELSE IF Truthy(region_config.token)
    THEN AuthDict(region_config.token)
    ELSE AuthNone

\* lines 300-313
get_prometheus_auth(region_config) ==
    IF Truthy(region_config.token)
    THEN AuthDict(region_config.token)
    ELSE IF Truthy(region_config.username) /\ Truthy(region_config.password)
    THEN AuthBasic(region_config.username, region_config.password)
    ELSE AuthNone

-----------------------------------------------------------------------------
(* Upstream: what requests.get gives for one GET *)

\* a JSON container the code inspects with isinstance
JDict(d) == [t |-> "dict", v |-> d]
JList(l) == [t |-> "list", v |-> l]

\* JSON null, which response.json() turns into None
JNull == [t |-> "null", v |-> <<>>]

\* requests.get raised instead of returning (connection error, timeout, TLS failure)
TransportFailure == [kind |-> "exception", cls |-> "requests.ConnectionError",
                     status_code |-> 0, json_ok |-> FALSE, decode_error |-> "", body |-> EmptyDict]

\* a response whose body is a JSON object
JsonResponse(code, obj) == [kind |-> "response", cls |-> "", status_code |-> code,
                            json_ok |-> TRUE, decode_error |-> "", body |-> obj]

\* a response whose body is not JSON; decode_error is the class response.json()
\* raises: requests.exceptions.JSONDecodeError from requests 2.27 on,
\* json.JSONDecodeError before
GarbageResponse(code, cls) == [kind |-> "response", cls |-> "", status_code |-> code,
                               json_ok |-> FALSE, decode_error |-> cls, body |-> EmptyDict]

\* Response.raise_for_status
RaisesForStatus(code) == code >= 400 /\ code < 600

-----------------------------------------------------------------------------
(* Prometheus Request Client *)

\* str.rstrip('/') of a URL held as a sequence of pieces, "/" a piece of its own
RECURSIVE RStripSlash(_)
RStripSlash(url) ==
    IF url /= <<>> /\ url[Len(url)] = "/"
    THEN RStripSlash(SubSeq(url, 1, Len(url) - 1))
    ELSE url

ApiUrl(region_config, endpoint) == RStripSlash(region_config.url) \o <<"/api/v1/">> \o endpoint

\* lines 340-352: the headers of the GET
BuildHeaders(region_config) ==
    LET auth == get_prometheus_auth(region_config)
        h0 == EmptyDict
        h1 == IF auth.kind = "dict" THEN Update(h0, auth.headers) ELSE h0
        h2 == IF Truthy(org_id) THEN Update(h1, "X-Scope-OrgID" :> <<org_id>>) ELSE h1
    IN  IF region_config.custom_headers /= EmptyDict
        THEN Update(h2, region_config.custom_headers) ELSE h2

\* the arguments of requests.get on line 358
BuildGet(region_config, endpoint, params) ==
    LET auth == get_prometheus_auth(region_config)
    IN  [url |-> ApiUrl(region_config, endpoint),
         params |-> params,
         auth |-> IF auth.kind = "dict" THEN AuthNone ELSE auth,
         headers |-> BuildHeaders(region_config),
         verify |-> region_config.url_ssl_verify]

\* lines 358-374: the body of the try block, given what requests.get did
TryBody(resp) ==
    IF resp.kind = "exception"
    THEN Raise(Exc(resp.cls, "transport", <<>>, <<>>, ""))
    ELSE IF RaisesForStatus(resp.status_code)
    THEN Raise(Exc("requests.HTTPError", "http", <<>>, <<>>, ToString(resp.status_code)))
    ELSE IF ~resp.json_ok
    THEN Raise(Exc(resp.decode_error, "decode", <<>>, <<>>, ""))
    ELSE LET result == resp.body
         IN  IF "status" \notin DOMAIN result
             THEN Raise(Exc("KeyError", "KeyError", <<>>, <<>>, "status"))
             ELSE IF result["status"] /= "success"
             THEN Raise(Exc("ValueError", "Prometheus API error: {error_msg}", <<>>, <<>>,
                            IF "error" \in DOMAIN result THEN result["error"]
                            ELSE "Unknown error"))
             ELSE IF "data" \notin DOMAIN result
             THEN Raise(Exc("KeyError", "KeyError", <<>>, <<>>, "data"))
             ELSE Return(result["data"])

InvalidJson == Exc("ValueError", "Invalid JSON response from Prometheus: {e}", <<>>, <<>>, "")

\* lines 376-384: the except clauses, tried in order
ExceptClauses(r) ==
    IF ~r.raised THEN r
    ELSE IF IsInstance(r.exc, "requests.RequestException") THEN Raise(r.exc)
    ELSE IF IsInstance(r.exc, "json.JSONDecodeError") THEN Raise(InvalidJson)
    ELSE Raise(r.exc)

\* one GET, the region it was issued for, and what the upstream did with it
Exchange(region_name, get, resp) == [region |-> region_name, request |-> get, response |-> resp]

\* the result of a call: what it returned or raised, and the GETs it issued
Done(r, gets) == [ret |-> r, gets |-> gets]

\* mutation of make_prometheus_request: a failed GET is issued a second time
make_prometheus_request_retry(endpoint, params, region, resp) ==
    LET rc == get_region_config(region)
    IN  IF rc.raised THEN Done(rc, <<>>)
        ELSE LET region_name == rc.value[1]
                 region_config == rc.value[2]
                 get == Exchange(region_name, BuildGet(region_config, endpoint, params), resp)
                 r == ExceptClauses(TryBody(resp))
             IN  IF region_config.url = <<>>
                 THEN Done(Raise(Exc("ValueError",
                          "Prometheus URL is not configured for region '{region_name}'.",
                          region_name, <<>>, "")), <<>>)
                 ELSE IF r.raised THEN Done(r, <<get, get>>) ELSE Done(r, <<get>>)

\* lines 315-384
make_prometheus_request(endpoint, params, region, resp) ==
    LET rc == get_region_config(region)
    IN  IF rc.raised THEN Done(rc, <<>>)
        ELSE LET region_name == rc.value[1]
                 region_config == rc.value[2]
             IN  IF region_config.url = <<>>
                 THEN Done(Raise(Exc("ValueError",
                          "Prometheus URL is not configured for region '{region_name}'.",
                          region_name, <<>>, "")), <<>>)
                 ELSE Done(ExceptClauses(TryBody(resp)),
                           <<Exchange(region_name, BuildGet(region_config, endpoint, params), resp)>>)

-----------------------------------------------------------------------------
(* Operation Handlers *)

\* a handler's result: what it returned or raised, what make_prometheus_request
\* gave it, and the GETs issued
Handled(r, req) == [ret |-> r, inner |-> req.ret, gets |-> req.gets]

\* region.lower() if region else config.default_region
\* mutation of EchoName: the region argument is echoed as given
EchoName_no_lower(region) ==
    IF region /= None /\ region /= <<>> THEN region ELSE default_region

EchoName(region) ==
    IF region /= None /\ region /= <<>> THEN Lower(region) ELSE default_region

\* d[key] of a dict d
GetItem(d, key) ==
    IF key \in DOMAIN d THEN Return(d[key])
    ELSE Raise(Exc("KeyError", "KeyError", <<>>, <<>>, key))

\* lines 457-468 and 528-542: the link to the Prometheus UI
WithLinks(result, region, ui_params) ==
    IF disable_prometheus_links THEN Return(result)
    ELSE LET rc == get_region_config(region)
         IN  IF rc.raised THEN rc
             ELSE Return(result @@
                    ("links" :> <<[href |-> [base |-> RStripSlash(rc.value[2].url) \o <<"/graph?">>,
                                             query |-> ui_params],
                                   rel |-> "prometheus-ui",
                                   title |-> "View in Prometheus UI"]>>))

\* lines 451-455 and 522-526
QueryResult(data, region_name) ==
    LET rt == GetItem(data.v, "resultType")
        rs == GetItem(data.v, "result")
    IN  IF rt.raised THEN rt
        ELSE IF rs.raised THEN rs
        ELSE Return([resultType |-> rt.value, result |-> rs.value, region |-> region_name])

execute_query(query, time, region, resp) ==
    LET params == IF Truthy(time) THEN ("query" :> query) @@ ("time" :> time)
                  ELSE ("query" :> query)
        region_name == EchoName(region)
        req == make_prometheus_request(<<"query">>, params, region, resp)
    IN  IF req.ret.raised THEN Handled(req.ret, req)
        ELSE LET result == QueryResult(req.ret.value, region_name)
                 ui == IF Truthy(time)
                       THEN ("g0.expr" :> query) @@ ("g0.tab" :> "0") @@ ("g0.moment_input" :> time)
                       ELSE ("g0.expr" :> query) @@ ("g0.tab" :> "0")
             IN  IF result.raised THEN Handled(result, req)
                 ELSE Handled(WithLinks(result.value, region, ui), req)

execute_range_query(query, start, end, step, region, resp) ==
    LET params == ("query" :> query) @@ ("start" :> start) @@ ("end" :> end) @@ ("step" :> step)
        region_name == EchoName(region)
        req == make_prometheus_request(<<"query_range">>, params, region, resp)
    IN  IF req.ret.raised THEN Handled(req.ret, req)
        ELSE LET result == QueryResult(req.ret.value, region_name)
                 ui == ("g0.expr" :> query) @@ ("g0.tab" :> "0")
                       @@ ("g0.range_input" :> <<start, " to ", end>>)
                       @@ ("g0.step_input" :> step)
             IN  IF result.raised THEN Handled(result, req)
                 ELSE Handled(WithLinks(result.value, region, ui), req)

\* a in b for two str
Contains(b, a) ==
    \E i \in 0 .. (Len(b) - Len(a)) : SubSeq(b, i + 1, i + Len(a)) = a

\* [m for m in data if p(m)]
RECURSIVE Filter(_, _)
Filter(data, pattern) ==
    IF data = <<>> THEN <<>>
    ELSE IF Contains(Lower(Head(data)), Lower(pattern))
    THEN <<Head(data)>> \o Filter(Tail(data), pattern)
    ELSE Filter(Tail(data), pattern)

\* the index a slice bound i stands for in a list of length n
SliceIndex(i, n) ==
    IF i < 0 THEN (IF i + n < 0 THEN 0 ELSE i + n)
    ELSE IF i > n THEN n ELSE i

\* data[start_idx:end_idx]
Slice(data, start_idx, end_idx) ==
    SubSeq(data, SliceIndex(start_idx, Len(data)) + 1, SliceIndex(end_idx, Len(data)))

\* lines 603-623; limit is NoLimit for None
NoLimit == 0 - 1

\* mutation of Paginate: has_more is reported whenever the page came back full
Paginate_page_full(data, limit, offset, filter_pattern, region_name) ==
    LET filtered == IF filter_pattern /= None /\ filter_pattern /= <<>>
                    THEN Filter(data, filter_pattern) ELSE data
        total_count == Len(filtered)
        start_idx == offset
        end_idx == IF limit /= NoLimit THEN offset + limit ELSE Len(filtered)
        paginated_data == Slice(filtered, start_idx, end_idx)
    IN  [metrics |-> paginated_data,
         total_count |-> total_count,
         returned_count |-> Len(paginated_data),
         offset |-> offset,
         has_more |-> limit /= NoLimit /\ Len(paginated_data) = limit,
         region |-> region_name]

Paginate(data, limit, offset, filter_pattern, region_name) ==
    LET filtered == IF filter_pattern /= None /\ filter_pattern /= <<>>
                    THEN Filter(data, filter_pattern) ELSE data
        total_count == Len(filtered)
        start_idx == offset
        end_idx == IF limit /= NoLimit THEN offset + limit ELSE Len(filtered)
        paginated_data == Slice(filtered, start_idx, end_idx)
    IN  [metrics |-> paginated_data,
         total_count |-> total_count,
         returned_count |-> Len(paginated_data),
         offset |-> offset,
         has_more |-> end_idx < total_count,
         region |-> region_name]

\* Metrics Cache (lines 20-21, 386-416)
_CACHE_TTL == 300

\* mutation of CacheKey: one key for every region
CacheKey_global(region_name) == <<"_metrics">>

\* f"{region_name}_metrics"
CacheKey(region_name) == region_name \o <<"_metrics">>

CacheEntry(data, timestamp) == [data |-> data, timestamp |-> timestamp]

\* mutation of CacheHit: an entry exactly as old as the TTL still counts as fresh
CacheHit_inclusive(cache_key, current_time) ==
    /\ cache_key \in DOMAIN _metrics_cache
    /\ _metrics_cache[cache_key].data /= JNull
    /\ (current_time - _metrics_cache[cache_key].timestamp) <= _CACHE_TTL

\* lines 402-405: the key is present, its data is not None, its age is below the TTL
CacheHit(cache_key, current_time) ==
    /\ cache_key \in DOMAIN _metrics_cache
    /\ _metrics_cache[cache_key].data /= JNull
    /\ (current_time - _metrics_cache[cache_key].timestamp) < _CACHE_TTL

\* lines 414-416: the stale data of the key if it holds any, else []
Fallback(c, cache_key) ==
    IF cache_key \in DOMAIN c /\ c[cache_key].data /= JNull THEN c[cache_key].data
    ELSE JList(<<>>)

\* len(data): None has no length
HasLen(data) == data.t \in {"list", "dict"}

\* the result of a cache lookup: what it returned, the request client's result, the
\* GETs issued and the cache it leaves
Cached(r, req_ret, gets, c) == [ret |-> r, inner |-> req_ret, gets |-> gets, cache |-> c]

get_cached_metrics(region, resp) ==
    LET region_name == EchoName(region)
        cache_key == CacheKey(region_name)
        current_time == now
    IN  IF CacheHit(cache_key, current_time)
        THEN Cached(Return(_metrics_cache[cache_key].data), Return(<<>>), <<>>, _metrics_cache)
        ELSE LET req == make_prometheus_request(<<"label/__name__/values">>, NoneStr,
                                                region, resp)
                 stored == Update(_metrics_cache,
                                  cache_key :> CacheEntry(req.ret.value, current_time))
             IN  IF req.ret.raised
                 THEN Cached(Return(Fallback(_metrics_cache, cache_key)), req.ret, req.gets,
                             _metrics_cache)
                 ELSE IF ~HasLen(req.ret.value)
                 THEN Cached(Return(Fallback(stored, cache_key)), req.ret, req.gets, stored)
                 ELSE Cached(Return(req.ret.value), req.ret, req.gets, stored)

\* mutation of list_metrics: the list is obtained through the metrics cache
list_metrics_cached(limit, offset, filter_pattern, region, resp) ==
    LET region_name == EchoName(region)
        c == get_cached_metrics(region, resp)
    IN  [ret |-> Return(Paginate(c.ret.value.v, limit, offset, filter_pattern, region_name)),
         inner |-> c.inner, gets |-> c.gets]

\* mutation of list_metrics: the failure of the fetch is swallowed, an empty list paged
list_metrics_swallow(limit, offset, filter_pattern, region, resp) ==
    LET region_name == EchoName(region)
        req == make_prometheus_request(<<"label/__name__/values">>, NoneStr, region, resp)
    IN  IF req.ret.raised
        THEN Handled(Return(Paginate(<<>>, limit, offset, filter_pattern, region_name)), req)
        ELSE Handled(Return(Paginate(req.ret.value.v, limit, offset, filter_pattern,
                                     region_name)), req)

list_metrics(limit, offset, filter_pattern, region, resp) ==
    LET region_name == EchoName(region)
        req == make_prometheus_request(<<"label/__name__/values">>, NoneStr, region, resp)
    IN  IF req.ret.raised THEN Handled(req.ret, req)
        ELSE Handled(Return(Paginate(req.ret.value.v, limit, offset, filter_pattern,
                                     region_name)), req)

\* mutation of NormalizeMetadata: a single mapping is passed on as it is
NormalizeMetadata_no_wrap(data) ==
    IF data.t = "dict" /\ "metadata" \in DOMAIN data.v THEN data.v["metadata"]
    ELSE IF data.t = "dict" /\ "data" \in DOMAIN data.v THEN data.v["data"]
    ELSE data

\* lines 662-669
NormalizeMetadata(data) ==
    LET metadata == IF data.t = "dict" /\ "metadata" \in DOMAIN data.v THEN data.v["metadata"]
                    ELSE IF data.t = "dict" /\ "data" \in DOMAIN data.v THEN data.v["data"]
                    ELSE data
    IN  IF metadata.t = "dict" THEN JList(<<metadata>>) ELSE metadata

\* "metadata" in data, len(metadata): None is neither iterable nor sized
NoneTypeError == Exc("TypeError", "argument of type 'NoneType' is not iterable", <<>>, <<>>, "")

get_metric_metadata(metric, region, resp) ==
    LET region_name == EchoName(region)
        req == make_prometheus_request(<<"metadata?metric=", metric>>, NoneStr, region, resp)
    IN  IF req.ret.raised THEN Handled(req.ret, req)
        ELSE IF req.ret.value = JNull THEN Handled(Raise(NoneTypeError), req)
        ELSE LET metadata == NormalizeMetadata(req.ret.value)
             IN  IF ~HasLen(metadata) THEN Handled(Raise(NoneTypeError), req)
                 ELSE Handled(Return([metadata |-> metadata, region |-> region_name]), req)

get_targets(region, resp) ==
    LET region_name == EchoName(region)
        req == make_prometheus_request(<<"targets">>, NoneStr, region, resp)
    IN  IF req.ret.raised THEN Handled(req.ret, req)
        ELSE LET a == GetItem(req.ret.value.v, "activeTargets")
                 d == GetItem(req.ret.value.v, "droppedTargets")
             IN  IF a.raised THEN Handled(a, req)
                 ELSE IF d.raised THEN Handled(d, req)
                 ELSE Handled(Return([activeTargets |-> a.value, droppedTargets |-> d.value,
                                      region |-> region_name]), req)

-----------------------------------------------------------------------------
(* Health check (lines 38-116) *)

\* str(e): the message of the exception, without its class
Str(e) == <<e.text, e.name, e.available, e.detail>>

\* lines 67, 87: the connectivity test, a query for "up" at the current time
Probe(region_name, resp) ==
    make_prometheus_request(<<"query">>, ("query" :> "up") @@ ("time" :> ToString(now)),
                            region_name, resp)

\* lines 48-59; order is list(config.regions.keys()).  The timestamp and the transport,
\* which come from the wall clock and the server's transport configuration, are left out
HealthBase(order) ==
    ("status" :> "healthy") @@ ("service" :> "prometheus-mcp-server") @@ ("version" :> "1.5.1")
    @@ ("configuration" :> [regions_configured |-> order,
                            default_region |-> default_region,
                            org_id_configured |-> Truthy(org_id)])

\* mutation of RegionStatus: a failed probe is reported as "unhealthy"
RegionStatus_unhealthy(probe, region_config) ==
    IF probe.ret.raised
    THEN ("prometheus_connectivity" :> "unhealthy") @@ ("prometheus_error" :> Str(probe.ret.exc))
    ELSE ("prometheus_connectivity" :> "healthy") @@ ("prometheus_url" :> region_config.url)

\* lines 85-98: the entry of one region in the report on all regions
RegionStatus(probe, region_config) ==
    IF probe.ret.raised
    THEN ("prometheus_connectivity" :> "degraded") @@ ("prometheus_error" :> Str(probe.ret.exc))
    ELSE ("prometheus_connectivity" :> "healthy") @@ ("prometheus_url" :> region_config.url)

\* what the loop over the regions leaves: the entries, the flag, what each probe gave
\* and the GETs issued, in order
Checked(regions_status, all_healthy, probes, gets) ==
    [regions_status |-> regions_status, all_healthy |-> all_healthy,
     probes |-> probes, gets |-> gets]

\* mutation of CheckRegions: the loop stops at the first region whose probe fails
RECURSIVE CheckRegions_abort(_, _)
CheckRegions_abort(order, resps) ==
    IF order = <<>> THEN Checked(EmptyDict, TRUE, EmptyDict, <<>>)
    ELSE LET region_name == Head(order)
             probe == Probe(region_name, resps[region_name])
             rest == CheckRegions_abort(Tail(order), resps)
         IN  IF probe.ret.raised
             THEN Checked(region_name :> RegionStatus(probe, regions[region_name]), FALSE,
                          region_name :> probe.ret, probe.gets)
             ELSE Checked(Update(region_name :> RegionStatus(probe, regions[region_name]),
                                 rest.regions_status),
                          rest.all_healthy,
                          Update(region_name :> probe.ret, rest.probes),
                          probe.gets \o rest.gets)

\* lines 83-100: for region_name, region_config in config.regions.items()
RECURSIVE CheckRegions(_, _)
CheckRegions(order, resps) ==
    IF order = <<>> THEN Checked(EmptyDict, TRUE, EmptyDict, <<>>)
    ELSE LET region_name == Head(order)
             probe == Probe(region_name, resps[region_name])
             rest == CheckRegions(Tail(order), resps)
         IN  Checked(Update(region_name :> RegionStatus(probe, regions[region_name]),
                            rest.regions_status),
                     ~probe.ret.raised /\ rest.all_healthy,
                     Update(region_name :> probe.ret, rest.probes),
                     probe.gets \o rest.gets)

\* the report, what the probe gave (Return(<<>>) when none ran) and the GETs issued
Report(r, probes, gets) == [ret |-> r, inner |-> probes, gets |-> gets]

\* mutation of CheckRegion: a region that does not resolve is reported as a failed probe
CheckRegion_resolution_as_probe(health_status, region, resps) ==
    LET rc == get_region_config(region)
    IN  IF rc.raised
        THEN Report(Return(Update(health_status,
                        ("prometheus_connectivity" :> "unhealthy")
                        @@ ("prometheus_error" :> Str(rc.exc))
                        @@ ("status" :> "degraded"))),
                    Return(<<>>), <<>>)
        ELSE LET region_name == rc.value[1]
                 region_config == rc.value[2]
                 probe == Probe(region_name, resps[region_name])
             IN  IF probe.ret.raised
                 THEN Report(Return(Update(health_status,
                                 ("prometheus_connectivity" :> "unhealthy")
                                 @@ ("prometheus_error" :> Str(probe.ret.exc))
                                 @@ ("region" :> region_name)
                                 @@ ("status" :> "degraded"))),
                             probe.ret, probe.gets)
                 ELSE Report(Return(Update(health_status,
                                 ("prometheus_connectivity" :> "healthy")
                                 @@ ("prometheus_url" :> region_config.url)
                                 @@ ("region" :> region_name))),
                             probe.ret, probe.gets)

\* lines 62-81: only the region asked for
CheckRegion(health_status, region, resps) ==
    LET rc == get_region_config(region)
    IN  IF rc.raised
        THEN Report(Return(Update(health_status,
                        ("status" :> "unhealthy") @@ ("error" :> Str(rc.exc)))),
                    Return(<<>>), <<>>)
        ELSE LET region_name == rc.value[1]
                 region_config == rc.value[2]
                 probe == Probe(region_name, resps[region_name])
             IN  IF probe.ret.raised
                 THEN Report(Return(Update(health_status,
                                 ("prometheus_connectivity" :> "unhealthy")
                                 @@ ("prometheus_error" :> Str(probe.ret.exc))
                                 @@ ("region" :> region_name)
                                 @@ ("status" :> "degraded"))),
                             probe.ret, probe.gets)
                 ELSE Report(Return(Update(health_status,
                                 ("prometheus_connectivity" :> "healthy")
                                 @@ ("prometheus_url" :> region_config.url)
                                 @@ ("region" :> region_name))),
                             probe.ret, probe.gets)

\* mutation of health_check: the error of resolving the region reaches the caller
health_check_uncaught(region, order, resps) ==
    LET health_status == HealthBase(order)
    IN  IF region /= None /\ region /= <<>>
        THEN IF get_region_config(region).raised
             THEN Report(get_region_config(region), Return(<<>>), <<>>)
             ELSE CheckRegion(health_status, region, resps)
        ELSE LET c == CheckRegions(order, resps)
             IN  Report(Return(Update(Update(health_status, "regions" :> c.regions_status),
                                      IF c.all_healthy THEN EmptyDict
                                      ELSE "status" :> "degraded")),
                        c.probes, c.gets)

\* lines 38-116.  Every statement that can raise sits in one of the inner try blocks,
\* so the handler of line 109 is never entered
health_check(region, order, resps) ==
    LET health_status == HealthBase(order)
    IN  IF region /= None /\ region /= <<>>
        THEN CheckRegion(health_status, region, resps)
        ELSE LET c == CheckRegions(order, resps)
             IN  Report(Return(Update(Update(health_status, "regions" :> c.regions_status),
                                      IF c.all_healthy THEN EmptyDict
                                      ELSE "status" :> "degraded")),
                        c.probes, c.gets)

-----------------------------------------------------------------------------
(* Configurations the loader can produce (lines 167-272) and the inputs *)

RegionPool == {<<"a">>, <<"b">>, <<"a", "b">>}

PoolIndex(name) == CASE name = <<"a">> -> 0 [] name = <<"b">> -> 1 [] OTHER -> 2

\* line 248: the default region's name when no region is configured
DefaultName == <<"d", "e", "f", "a", "u", "l", "t">>

ConfigList == <<
    RegionConfig(<<"http://h1">>, TRUE, "", "", "", EmptyDict),
    RegionConfig(<<"http://h2", "/">>, TRUE, "admin", "pass", "token123",
                 ("X-Custom" :> <<"blr-value">>)),
    RegionConfig(<<"http://h3">>, FALSE, "admin", "pass", "", 
                 ("X-Scope-OrgID" :> <<"tenant-r">>)),
    RegionConfig(<<"http://h4">>, TRUE, NoneStr, NoneStr, "token456",
                 ("Authorization" :> <<"Basic Zm9v">>) @@ ("X-Scope-OrgID" :> <<"tenant-r">>)),
    RegionConfig(<<>>, TRUE, "", "", "token789", EmptyDict) >>

\* the registry with the names D configured, shift k of ConfigList laid over the pool
Registry(D, k) == [n \in D |-> ConfigList[((PoolIndex(n) + k) % Len(ConfigList)) + 1]]

\* the case variants of a name
CaseVariants(n) == {s \in [DOMAIN n -> {"a", "b", "A", "B"}] : Lower(s) = n}

\* region arguments: absent, empty, every case variant of a pool name, and names
\* outside the pool
RegionArgs ==
    {None, <<>>} \cup UNION {CaseVariants(n) : n \in RegionPool} \cup {<<"b", "a">>}

Credentials == {NoneStr, "", "x"}

AuthInputs ==
    {RegionConfig(<<"http://h1">>, TRUE, u, p, t, EmptyDict) :
        u \in Credentials, p \in Credentials, t \in Credentials}

Sample == ("metric" :> "up")

Payloads(endpoint) ==
    CASE endpoint = "query" ->
            {JDict(("resultType" :> "vector") @@ ("result" :> <<Sample>>))}
      [] endpoint = "query_range" ->
            {JDict(("resultType" :> "matrix") @@ ("result" :> <<Sample>>))}
      [] endpoint = "label/__name__/values" ->
            {JList(<<<<"u", "p">>, <<"U", "b">>, <<"a", "b">>>>)}
      [] endpoint = "metadata" ->
            {JDict("data" :> JList(<<JDict(Sample)>>)),
             JDict("metadata" :> JDict(Sample)),
             JDict(Sample),
             JDict("metadata" :> JList(<<JDict(Sample), JDict(Sample)>>)),
             JDict("data" :> JDict(Sample)),
             JList(<<JDict(Sample)>>),
             JDict("metadata" :> JNull),
             JNull}
      [] endpoint = "targets" ->
            {JDict(("activeTargets" :> <<"t1">>) @@ ("droppedTargets" :> <<>>))}

\* what the upstream can do with one GET to the endpoint
Responses(endpoint) ==
    {TransportFailure}
    \cup {JsonResponse(code, ("status" :> "error") @@ ("error" :> "not found")) : code \in {503}}
    \cup {GarbageResponse(200, cls) : cls \in {"requests.JSONDecodeError", "json.JSONDecodeError"}}
    \cup {JsonResponse(200, ("status" :> "success") @@ ("data" :> d)) : d \in Payloads(endpoint)}
    \cup {JsonResponse(201, ("status" :> "error") @@ ("error" :> "boom") @@ ("data" :> d)) :
             d \in Payloads(endpoint)}
    \cup {JsonResponse(200, ("status" :> "success")),
          JsonResponse(200, ("status" :> "error") @@ ("error" :> "boom")),
          JsonResponse(200, ("status" :> "error")),
          JsonResponse(200, ("status" :> "warning")),
          JsonResponse(200, ("error" :> "boom"))}

NotCalled == Return(<<>>)

Idle == [op |-> "none"]

Init ==
    /\ \E D \in SUBSET RegionPool, k \in 0 .. (Len(ConfigList) - 1) :
          /\ Cardinality(D) <= MaxRegions
          /\ regions = Registry(D, k)
          /\ default_region \in (IF D = {} THEN {DefaultName} ELSE D)
    /\ org_id \in {"", "tenant-g"}
    /\ disable_prometheus_links \in BOOLEAN
    /\ call = Idle
    /\ outcome = NotCalled
    /\ inner = NotCalled
    /\ outbound = <<>>
    /\ _metrics_cache = EmptyDict
    /\ now = 0
    /\ in_flight = EmptyDict

GetRegionConfig ==
    /\ call = Idle
    /\ \E region \in RegionArgs :
          /\ call' = [op |-> "get_region_config", region |-> region]
          /\ outcome' = get_region_config(region)
    /\ inner' = NotCalled
    /\ outbound' = <<>>
    /\ UNCHANGED <<config, cache, in_flight>>

GetPrometheusAuth ==
    /\ call = Idle
    /\ \E region_config \in AuthInputs \cup {regions[n] : n \in DOMAIN regions} :
          /\ call' = [op |-> "get_prometheus_auth", region_config |-> region_config]
          /\ outcome' = Return(get_prometheus_auth(region_config))
    /\ inner' = NotCalled
    /\ outbound' = <<>>
    /\ UNCHANGED <<config, cache, in_flight>>

MakePrometheusRequest ==
    /\ call = Idle
    /\ \E region \in RegionArgs, resp \in Responses("query") :
          LET r == make_prometheus_request(<<"query">>, ("query" :> "up"), region, resp)
          IN  /\ call' = [op |-> "make_prometheus_request", region |-> region]
              /\ outcome' = r.ret
              /\ inner' = r.ret
              /\ outbound' = r.gets
    /\ UNCHANGED <<config, cache, in_flight>>

ExecuteQuery ==
    /\ call = Idle
    /\ \E time \in {NoneStr, "1700000000"}, region \in RegionArgs, resp \in Responses("query") :
          LET h == execute_query("up", time, region, resp)
          IN  /\ call' = [op |-> "execute_query", region |-> region, time |-> time]
              /\ outcome' = h.ret
              /\ inner' = h.inner
              /\ outbound' = h.gets
    /\ UNCHANGED <<config, cache, in_flight>>

ExecuteRangeQuery ==
    /\ call = Idle
    /\ \E region \in RegionArgs, resp \in Responses("query_range") :
          LET h == execute_range_query("up", "1700000000", "1700003600", "15s", region, resp)
          IN  /\ call' = [op |-> "execute_range_query", region |-> region]
              /\ outcome' = h.ret
              /\ inner' = h.inner
              /\ outbound' = h.gets
    /\ UNCHANGED <<config, cache, in_flight>>

ListMetrics ==
    /\ call = Idle
    /\ \E limit \in {NoLimit, 1}, region \in RegionArgs,
          resp \in Responses("label/__name__/values") :
          LET h == list_metrics(limit, 0, None, region, resp)
          IN  /\ call' = [op |-> "list_metrics", region |-> region, limit |-> limit]
              /\ outcome' = h.ret
              /\ inner' = h.inner
              /\ outbound' = h.gets
    /\ UNCHANGED <<config, cache, in_flight>>

GetMetricMetadata ==
    /\ call = Idle
    /\ \E region \in RegionArgs, resp \in Responses("metadata") :
          LET h == get_metric_metadata("up", region, resp)
          IN  /\ call' = [op |-> "get_metric_metadata", region |-> region]
              /\ outcome' = h.ret
              /\ inner' = h.inner
              /\ outbound' = h.gets
    /\ UNCHANGED <<config, cache, in_flight>>

GetTargets ==
    /\ call = Idle
    /\ \E region \in RegionArgs, resp \in Responses("targets") :
          LET h == get_targets(region, resp)
          IN  /\ call' = [op |-> "get_targets", region |-> region]
              /\ outcome' = h.ret
              /\ inner' = h.inner
              /\ outbound' = h.gets
    /\ UNCHANGED <<config, cache, in_flight>>

\* the caller takes the result; the next invocation starts from the same configuration
Collect ==
    /\ call /= Idle
    /\ call' = Idle
    /\ outcome' = NotCalled
    /\ inner' = NotCalled
    /\ outbound' = <<>>
    /\ UNCHANGED <<config, cache, in_flight>>

Next ==
    \/ Collect
    \/ GetRegionConfig
    \/ GetPrometheusAuth
    \/ MakePrometheusRequest
    \/ ExecuteQuery
    \/ ExecuteRangeQuery
    \/ ListMetrics
    \/ GetMetricMetadata
    \/ GetTargets

Spec == Init /\ [][Next]_vars

-----------------------------------------------------------------------------
(* The metrics cache as time passes *)

MaxTime == 600

\* the clock moves in steps of half the TTL, so that an entry is seen younger than,
\* exactly as old as, and older than the TTL
TickStep == _CACHE_TTL \div 2

CacheArgs == {None, <<>>, <<"A">>, <<"b">>, <<"b", "a">>}

MetricLists == {JList(<<<<"u", "p">>, <<"U", "b">>, <<"a", "b">>>>), JList(<<<<"u", "p">>>>)}

\* what the upstream can do with one GET for the metric names
ListResponses ==
    {TransportFailure,
     JsonResponse(200, ("status" :> "error") @@ ("error" :> "boom"))}
    \cup {JsonResponse(200, ("status" :> "success") @@ ("data" :> d)) : d \in MetricLists}

\* a success envelope whose data is null
NullResponse == JsonResponse(200, ("status" :> "success") @@ ("data" :> JNull))

CacheResponses == ListResponses \cup {NullResponse}

InitCache ==
    /\ regions = Registry({<<"a">>, <<"b">>}, 0)
    /\ default_region \in DOMAIN regions
    /\ org_id = ""
    /\ disable_prometheus_links = FALSE
    /\ call = Idle
    /\ outcome = NotCalled
    /\ inner = NotCalled
    /\ outbound = <<>>
    /\ _metrics_cache = EmptyDict
    /\ now = 0
    /\ in_flight = EmptyDict

Tick ==
    /\ call = Idle
    /\ now + TickStep <= MaxTime
    /\ now' = now + TickStep
    /\ UNCHANGED <<config, call, outcome, inner, outbound, _metrics_cache, in_flight>>

GetCachedMetrics ==
    /\ call = Idle
    /\ \E region \in CacheArgs, resp \in CacheResponses :
          LET c == get_cached_metrics(region, resp)
          IN  /\ call' = [op |-> "get_cached_metrics", region |-> region]
              /\ outcome' = c.ret
              /\ inner' = c.inner
              /\ outbound' = c.gets
              /\ _metrics_cache' = c.cache
    /\ UNCHANGED <<config, now, in_flight>>

CacheListMetrics ==
    /\ call = Idle
    /\ \E region \in CacheArgs, resp \in ListResponses :
          LET h == list_metrics(NoLimit, 0, None, region, resp)
          IN  /\ call' = [op |-> "list_metrics", region |-> region, limit |-> NoLimit]
              /\ outcome' = h.ret
              /\ inner' = h.inner
              /\ outbound' = h.gets
    /\ UNCHANGED <<config, cache, in_flight>>

NextCache ==
    \/ Collect
    \/ Tick
    \/ GetCachedMetrics
    \/ CacheListMetrics

SpecCache == InitCache /\ [][NextCache]_vars

-----------------------------------------------------------------------------
(* Concurrent cache lookups: get_cached_metrics called from several threads.  The *)
(* function holds no lock, so the calls interleave between its statements.      *)

Callers == {"c1", "c2"}

RaceArgs == {None, <<"A">>}

RaceResponses ==
    {TransportFailure}
    \cup {JsonResponse(200, ("status" :> "success") @@ ("data" :> d)) : d \in MetricLists}

\* where a caller's call stands: the statement it is at, its argument, the clock it
\* read, what the request client gave it and what it returned
Standing(pc, region, current_time, req_ret, ret) ==
    [pc |-> pc, region |-> region, current_time |-> current_time,
     req_ret |-> req_ret, ret |-> ret]

NotStarted == Standing("idle", None, 0, Return(<<>>), Return(<<>>))

InitRace ==
    /\ regions = Registry({<<"a">>, <<"b">>}, 0)
    /\ default_region \in DOMAIN regions
    /\ org_id = ""
    /\ disable_prometheus_links = FALSE
    /\ call = Idle
    /\ outcome = NotCalled
    /\ inner = NotCalled
    /\ outbound = <<>>
    /\ _metrics_cache = EmptyDict
    /\ now = 0
    /\ in_flight = [c \in Callers |-> NotStarted]

\* lines 396-399: the key is computed and the clock read
ReadClock ==
    /\ \E c \in Callers, region \in RaceArgs :
          /\ in_flight[c].pc = "idle"
          /\ in_flight' = [in_flight EXCEPT
                              ![c] = Standing("clock_read", region, now, @.req_ret, @.ret)]
    /\ UNCHANGED <<config, call, outcome, inner, outbound, cache>>

\* lines 402-405: a fresh entry is returned, else the call goes on to refresh
Lookup ==
    /\ \E c \in Callers :
          LET s == in_flight[c]
              cache_key == CacheKey(EchoName(s.region))
          IN  /\ s.pc = "clock_read"
              /\ in_flight' = [in_flight EXCEPT ![c] =
                    IF CacheHit(cache_key, s.current_time)
                    THEN Standing("done", s.region, s.current_time, s.req_ret,
                                  Return(_metrics_cache[cache_key].data))
                    ELSE Standing("refreshing", s.region, s.current_time, s.req_ret, s.ret)]
    /\ UNCHANGED <<config, call, outcome, inner, outbound, cache>>

\* line 407: the request client answers, or raises
Fetch ==
    /\ \E c \in Callers, resp \in RaceResponses :
          LET s == in_flight[c]
              req == make_prometheus_request(<<"label/__name__/values">>, NoneStr,
                                             s.region, resp)
          IN  /\ s.pc = "refreshing"
              /\ in_flight' = [in_flight EXCEPT ![c] =
                    Standing(IF req.ret.raised THEN "failed" ELSE "fetched",
                             s.region, s.current_time, req.ret, s.ret)]
    /\ UNCHANGED <<config, call, outcome, inner, outbound, cache>>

\* lines 408-410: the entry is written with the clock read at the start, and the data
\* returned
Store ==
    /\ \E c \in Callers :
          LET s == in_flight[c]
              cache_key == CacheKey(EchoName(s.region))
          IN  /\ s.pc = "fetched"
              /\ _metrics_cache' = Update(_metrics_cache,
                                          cache_key :> CacheEntry(s.req_ret.value,
                                                                  s.current_time))
              /\ in_flight' = [in_flight EXCEPT ![c] =
                    IF HasLen(s.req_ret.value)
                    THEN Standing("done", s.region, s.current_time, s.req_ret,
                                  Return(s.req_ret.value))
                    ELSE Standing("failed", s.region, s.current_time, s.req_ret, s.ret)]
    /\ UNCHANGED <<config, call, outcome, inner, outbound, now>>

\* lines 411-416: after a failure, the stale data of the key or []
Recover ==
    /\ \E c \in Callers :
          LET s == in_flight[c]
              cache_key == CacheKey(EchoName(s.region))
          IN  /\ s.pc = "failed"
              /\ in_flight' = [in_flight EXCEPT ![c] =
                    Standing("done", s.region, s.current_time, s.req_ret,
                             Return(Fallback(_metrics_cache, cache_key)))]
    /\ UNCHANGED <<config, call, outcome, inner, outbound, cache>>

NextRace ==
    \/ Tick
    \/ ReadClock
    \/ Lookup
    \/ Fetch
    \/ Store
    \/ Recover

SpecRace == InitRace /\ [][NextRace]_vars

-----------------------------------------------------------------------------
(* Paging through the metric names *)

MaxMetrics == 4
MaxOffset == 4
MaxLimit == 4

PageNames == << <<"a", "b">>, <<"_">>, <<"A">>, <<"b", "A">> >>

\* the first n names of an upstream that keeps listing PageNames
PageList(n) == [i \in 1 .. n |-> PageNames[((i - 1) % Len(PageNames)) + 1]]

PageFilters == {None, <<>>, <<"a">>, <<"A", "B">>, <<"b", "b">>}

InitPage ==
    /\ regions = Registry({<<"a">>}, 0)
    /\ default_region = <<"a">>
    /\ org_id = ""
    /\ disable_prometheus_links = FALSE
    /\ call = Idle
    /\ outcome = NotCalled
    /\ inner = NotCalled
    /\ outbound = <<>>
    /\ _metrics_cache = EmptyDict
    /\ now = 0
    /\ in_flight = EmptyDict

PageMetrics ==
    /\ call = Idle
    /\ \E n \in 0 .. MaxMetrics, limit \in {NoLimit} \cup (0 .. MaxLimit),
          offset \in (0 - MaxOffset) .. MaxOffset, filter_pattern \in PageFilters :
          LET resp == JsonResponse(200, ("status" :> "success")
                                        @@ ("data" :> JList(PageList(n))))
              h == list_metrics(limit, offset, filter_pattern, None, resp)
          IN  /\ call' = [op |-> "list_metrics", region |-> None, limit |-> limit,
                          offset |-> offset, filter_pattern |-> filter_pattern]
              /\ outcome' = h.ret
              /\ inner' = h.inner
              /\ outbound' = h.gets
    /\ UNCHANGED <<config, cache, in_flight>>

NextPage ==
    \/ Collect
    \/ PageMetrics

SpecPage == InitPage /\ [][NextPage]_vars

-----------------------------------------------------------------------------
(* Health checks *)

\* what the upstream can do with the GET of a probe
HealthResponses ==
    {TransportFailure,
     JsonResponse(503, ("status" :> "error") @@ ("error" :> "not found")),
     JsonResponse(200, ("status" :> "error") @@ ("error" :> "boom"))}
    \cup {JsonResponse(200, ("status" :> "success") @@ ("data" :> d)) : d \in Payloads("query")}

\* the orders in which config.regions can list its keys
KeyOrders ==
    {order \in [1 .. Cardinality(DOMAIN regions) -> DOMAIN regions] :
        \A i, j \in DOMAIN order : i /= j => order[i] /= order[j]}

\* what each region's upstream does when probed; with a region asked for, only that
\* region is probed, so one answer is drawn
ProbeResponses(region) ==
    IF region /= None /\ region /= <<>>
    THEN {[n \in DOMAIN regions |-> r] : r \in HealthResponses}
    ELSE [DOMAIN regions -> HealthResponses]

HealthCheck ==
    /\ call = Idle
    /\ \E region \in RegionArgs, order \in KeyOrders :
       \E resps \in ProbeResponses(region) :
          LET h == health_check(region, order, resps)
          IN  /\ call' = [op |-> "health_check", region |-> region]
              /\ outcome' = h.ret
              /\ inner' = h.inner
              /\ outbound' = h.gets
    /\ UNCHANGED <<config, cache, in_flight>>

NextHealth ==
    \/ Collect
    \/ HealthCheck

SpecHealth == Init /\ [][NextHealth]_vars

-----------------------------------------------------------------------------
(* Every operation beside a cache in use *)

\* one payload per endpoint
KeyedPayload(endpoint) ==
    IF endpoint = "metadata" THEN JDict(Sample) ELSE CHOOSE d \in Payloads(endpoint) : TRUE

\* the upstream fails, or answers with a success envelope
KeyedResponses(endpoint) ==
    {TransportFailure,
     JsonResponse(200, ("status" :> "success") @@ ("data" :> KeyedPayload(endpoint)))}

\* time passes until whatever was cached has expired
Expire ==
    /\ call = Idle
    /\ now + _CACHE_TTL <= MaxTime
    /\ now' = now + _CACHE_TTL
    /\ UNCHANGED <<config, call, outcome, inner, outbound, _metrics_cache, in_flight>>

KeyedMakePrometheusRequest ==
    /\ call = Idle
    /\ \E region \in CacheArgs, resp \in KeyedResponses("query") :
          LET h == make_prometheus_request(<<"query">>, ("query" :> "up"), region, resp)
          IN  /\ call' = [op |-> "make_prometheus_request", region |-> region]
              /\ outcome' = h.ret
              /\ inner' = h.ret
              /\ outbound' = h.gets
    /\ UNCHANGED <<config, cache, in_flight>>

KeyedExecuteQuery ==
    /\ call = Idle
    /\ \E region \in CacheArgs, resp \in KeyedResponses("query") :
          LET h == execute_query("up", NoneStr, region, resp)
          IN  /\ call' = [op |-> "execute_query", region |-> region, time |-> NoneStr]
              /\ outcome' = h.ret
              /\ inner' = h.inner
              /\ outbound' = h.gets
    /\ UNCHANGED <<config, cache, in_flight>>

KeyedExecuteRangeQuery ==
    /\ call = Idle
    /\ \E region \in CacheArgs, resp \in KeyedResponses("query_range") :
          LET h == execute_range_query("up", "1700000000", "1700003600", "15s", region, resp)
          IN  /\ call' = [op |-> "execute_range_query", region |-> region]
              /\ outcome' = h.ret
              /\ inner' = h.inner
              /\ outbound' = h.gets
    /\ UNCHANGED <<config, cache, in_flight>>

KeyedGetMetricMetadata ==
    /\ call = Idle
    /\ \E region \in CacheArgs, resp \in KeyedResponses("metadata") :
          LET h == get_metric_metadata("up", region, resp)
          IN  /\ call' = [op |-> "get_metric_metadata", region |-> region]
              /\ outcome' = h.ret
              /\ inner' = h.inner
              /\ outbound' = h.gets
    /\ UNCHANGED <<config, cache, in_flight>>

KeyedGetTargets ==
    /\ call = Idle
    /\ \E region \in CacheArgs, resp \in KeyedResponses("targets") :
          LET h == get_targets(region, resp)
          IN  /\ call' = [op |-> "get_targets", region |-> region]
              /\ outcome' = h.ret
              /\ inner' = h.inner
              /\ outbound' = h.gets
    /\ UNCHANGED <<config, cache, in_flight>>

KeyedHealthCheck ==
    /\ call = Idle
    /\ \E region \in CacheArgs, order \in KeyOrders :
       \E resps \in {[n \in DOMAIN regions |-> r] : r \in KeyedResponses("query")} :
          LET h == health_check(region, order, resps)
          IN  /\ call' = [op |-> "health_check", region |-> region]
              /\ outcome' = h.ret
              /\ inner' = h.inner
              /\ outbound' = h.gets
    /\ UNCHANGED <<config, cache, in_flight>>

NextKeyed ==
    \/ Collect
    \/ Expire
    \/ GetCachedMetrics
    \/ CacheListMetrics
    \/ KeyedMakePrometheusRequest
    \/ KeyedExecuteQuery
    \/ KeyedExecuteRangeQuery
    \/ KeyedGetMetricMetadata
    \/ KeyedGetTargets
    \/ KeyedHealthCheck

SpecKeyed == InitCache /\ [][NextKeyed]_vars

-----------------------------------------------------------------------------
(* Properties *)

\* s and n are the same name up to the case of their letters
SameIgnoringCase(s, n) ==
    /\ Len(s) = Len(n)
    /\ \A i \in DOMAIN s :
          s[i] = n[i] \/ <<n[i], s[i]>> \in {<<"a", "A">>, <<"b", "B">>}

\* the name a region argument asks for
Requested(region) == IF region = None THEN default_region ELSE region

\* the configured names the argument matches, case aside
Matches(region) == {n \in DOMAIN regions : SameIgnoringCase(Requested(region), n)}

UnknownRegion(e) ==
    /\ e.cls = "ValueError"
    /\ e.text = "Region '{region}' is not configured. Available regions: {available_regions}"

RegionURLMissing(e) ==
    /\ e.cls = "ValueError"
    /\ e.text = "Prometheus URL is not configured for region '{region_name}'."

UpstreamError(e) == e.cls = "ValueError" /\ e.text = "Prometheus API error: {error_msg}"

InvalidResponse(e) ==
    e.cls = "ValueError" /\ e.text = "Invalid JSON response from Prometheus: {e}"

\* seq lists exactly the names of S, each once, in ascending order
SortedListing(seq, S) ==
    /\ {seq[i] : i \in DOMAIN seq} = S
    /\ Len(seq) = Cardinality(S)
    /\ \A i \in DOMAIN seq : \A j \in DOMAIN seq : i < j => StrLess(seq[i], seq[j])

RequestOps == {"make_prometheus_request", "execute_query", "execute_range_query",
               "get_metric_metadata", "get_targets"}

HandlerOps == {"execute_query", "execute_range_query", "list_metrics",
               "get_metric_metadata", "get_targets"}

\* C1: region resolution is case-insensitive: get_region_config of any case variant
\* of a configured name n returns the pair (n, config of n).
C1_CaseInsensitive ==
    (call.op = "get_region_config" /\ call.region /= None) =>
        \A n \in DOMAIN regions :
            SameIgnoringCase(call.region, n) => outcome = Return(<<n, regions[n]>>)

C1_Witness ==
    /\ call.op = "get_region_config"
    /\ call.region = <<"A", "b">>
    /\ ~outcome.raised
    /\ outcome.value[1] = <<"a", "b">>

\* C2: with the region argument absent (None) or the empty string, get_region_config
\* returns (default_region, config of default_region) whenever default_region is
\* configured.
C2_AbsentOrEmptyUsesDefault ==
    (/\ call.op = "get_region_config"
     /\ call.region \in {None, <<>>}
     /\ default_region \in DOMAIN regions) =>
        outcome = Return(<<default_region, regions[default_region]>>)

\* C3: a lookup of a name that is not configured (case aside) raises the
\* unknown-region error carrying the requested name and exactly the configured names
\* in sorted order, and leaves the registry unchanged.
C3_UnknownRegionFails ==
    [][(/\ call = Idle
        /\ call'.op = "get_region_config"
        /\ Matches(call'.region) = {}) =>
            /\ outcome'.raised
            /\ UnknownRegion(outcome'.exc)
            /\ outcome'.exc.name = Requested(call'.region)
            /\ SortedListing(outcome'.exc.available, DOMAIN regions)
            /\ regions' = regions
            /\ default_region' = default_region]_vars

C3_Witness ==
    /\ call.op = "get_region_config"
    /\ call.region = <<"b", "a">>
    /\ Cardinality(DOMAIN regions) >= 2
    /\ outcome.raised
    /\ Len(outcome.exc.available) >= 2

\* C4: auth selection follows the priority for every combination of absent, empty and
\* set token, username and password: a non-empty token gives the bearer header;
\* otherwise a non-empty username and password give basic auth; otherwise none; and
\* the resolver never fails.
C4_AuthPriority ==
    call.op = "get_prometheus_auth" =>
        LET c == call.region_config
            set(x) == x /= NoneStr /\ x /= ""
        IN  /\ ~outcome.raised
            /\ set(c.token) =>
                  /\ outcome.value.kind = "dict"
                  /\ outcome.value.headers = ("Authorization" :> <<"Bearer ", c.token>>)
            /\ (~set(c.token) /\ set(c.username) /\ set(c.password)) =>
                  /\ outcome.value.kind = "HTTPBasicAuth"
                  /\ outcome.value.username = c.username
                  /\ outcome.value.password = c.password
            /\ (~set(c.token) /\ ~(set(c.username) /\ set(c.password))) =>
                  outcome.value.kind = "None"

C4_Witness ==
    /\ call.op = "get_prometheus_auth"
    /\ call.region_config.token = "x"
    /\ call.region_config.username = "x"
    /\ call.region_config.password = "x"
    /\ outcome.value.kind = "dict"

\* C5: custom headers can override the organization header but not the auth header:
\* every GET for a region whose credential is a bearer token T carries
\* Authorization "Bearer T", and a custom X-Scope-OrgID header wins over the org id.
C5_CustomHeadersKeepAuth ==
    \A i \in DOMAIN outbound :
        LET c == regions[outbound[i].region]
            h == outbound[i].request.headers
        IN  /\ Truthy(c.token) =>
                  /\ "Authorization" \in DOMAIN h
                  /\ h["Authorization"] = <<"Bearer ", c.token>>
            /\ (Truthy(org_id) /\ "X-Scope-OrgID" \in DOMAIN c.custom_headers) =>
                  h["X-Scope-OrgID"] = c.custom_headers["X-Scope-OrgID"]


\* C6: one request per call and no retry: a call of make_prometheus_request or of a
\* handler built on it issues exactly one GET, to the resolved region's base URL, when
\* the region resolves to a config with a non-empty URL (also when that GET fails), and
\* no GET when resolution fails or the URL is missing.
C6_OneRequestPerCall ==
    call.op \in RequestOps =>
        LET usable == {n \in Matches(call.region) : regions[n].url /= <<>>}
        IN  IF usable /= {}
            THEN /\ Len(outbound) = 1
                 /\ outbound[1].region \in usable
                 /\ LET base == RStripSlash(regions[outbound[1].region].url)
                    IN  SubSeq(outbound[1].request.url, 1, Len(base) + 1)
                            = base \o <<"/api/v1/">>
            ELSE /\ outbound = <<>>
                 /\ outcome.raised
                 /\ UnknownRegion(outcome.exc) \/ RegionURLMissing(outcome.exc)

C6_Witness ==
    /\ call.op = "get_targets"
    /\ Len(outbound) = 1
    /\ outbound[1].response.kind = "exception"
    /\ outcome.raised

\* C7: for every 2xx response whose body parses as JSON, make_prometheus_request
\* returns the body's data field if and only if the status field equals "success";
\* in every other case (status "error", another value, or absent) it fails with the
\* upstream error whose message is the error field, or a generic one when absent.
C7_StatusClassification ==
    (/\ call.op = "make_prometheus_request"
     /\ Len(outbound) = 1
     /\ outbound[1].response.kind = "response"
     /\ outbound[1].response.status_code \in 200 .. 299
     /\ outbound[1].response.json_ok) =>
        LET body == outbound[1].response.body
        IN  IF "status" \in DOMAIN body /\ body["status"] = "success"
            THEN "data" \in DOMAIN body => outcome = Return(body["data"])
            ELSE /\ outcome.raised
                 /\ UpstreamError(outcome.exc)
                 /\ outcome.exc.detail = IF "error" \in DOMAIN body THEN body["error"]
                                         ELSE "Unknown error"

\* C8: a response body that is not JSON makes make_prometheus_request fail with the
\* invalid-response error ('Invalid JSON response from Prometheus'), never with the
\* error of the transport-failure path.
C8_UnparsableBodyIsInvalidResponse ==
    (/\ call.op = "make_prometheus_request"
     /\ Len(outbound) = 1
     /\ outbound[1].response.kind = "response"
     /\ ~RaisesForStatus(outbound[1].response.status_code)
     /\ ~outbound[1].response.json_ok) =>
        /\ outcome.raised
        /\ InvalidResponse(outcome.exc)
        /\ ~IsInstance(outcome.exc, "requests.RequestException")

\* C9: failure propagation: whenever the request of a handler fails with an error E,
\* the handler fails with that same E and returns no result mapping.
C9_FailuresPropagate ==
    (call.op \in HandlerOps /\ inner.raised) => outcome = inner

C9_Witness ==
    /\ call.op = "list_metrics"
    /\ inner.raised
    /\ UpstreamError(inner.exc)
    /\ outcome.raised

\* C10: every result a handler returns carries a region field equal to the canonical
\* name the registry resolved for the region argument (the lowercased configured name,
\* or the default region when none was given), the region the GET was sent to.
C10_ResultEchoesRegion ==
    (call.op \in HandlerOps /\ ~outcome.raised) =>
        /\ Matches(call.region) = {outcome.value.region}
        /\ call.region = None => outcome.value.region = default_region
        /\ Len(outbound) = 1
        /\ outbound[1].region = outcome.value.region
        /\ LET base == RStripSlash(regions[outcome.value.region].url)
           IN  SubSeq(outbound[1].request.url, 1, Len(base)) = base

C10_Witness ==
    /\ call.op = "execute_query"
    /\ call.region = <<"A", "b">>
    /\ ~outcome.raised
    /\ outcome.value.region = <<"a", "b">>

-----------------------------------------------------------------------------
(* Metrics cache *)

\* the cache key a region argument addresses
KeyOf(region) == CacheKey(EchoName(region))

\* the key holds a metric-name list
HoldsList(c, k) == k \in DOMAIN c /\ c[k].data.t = "list"

\* the request client was called and put at most one GET on the wire: exactly one,
\* unless it failed on resolving the region before reaching the network
OneFetch(req_ret, gets) ==
    /\ req_ret /= NotCalled
    /\ \/ Len(gets) = 1
       \/ gets = <<>> /\ req_ret.raised /\ UnknownRegion(req_ret.exc)

\* C11: metrics cache freshness: when the region's entry holds the list of a successful
\* fetch stored with timestamp t, a get_cached_metrics call at a time now with
\* now - t < 300 returns the stored data and issues zero outbound requests, and a
\* call with now - t >= 300 issues exactly one fetch.
C11_Freshness ==
    [][(call = Idle /\ call'.op = "get_cached_metrics"
        /\ HoldsList(_metrics_cache, KeyOf(call'.region))) =>
          LET entry == _metrics_cache[KeyOf(call'.region)]
          IN  IF now - entry.timestamp < 300
              THEN outcome' = Return(entry.data) /\ outbound' = <<>> /\ inner' = NotCalled
              ELSE OneFetch(inner', outbound')]_vars

\* a call was served from an entry stored earlier and still younger than the TTL,
\* without a request
C11_Witness ==
    /\ call.op = "get_cached_metrics"
    /\ outbound = <<>>
    /\ inner = NotCalled
    /\ HoldsList(_metrics_cache, KeyOf(call.region))
    /\ _metrics_cache[KeyOf(call.region)].timestamp < now
    /\ outcome = Return(_metrics_cache[KeyOf(call.region)].data)

\* the refresh was attempted and did not yield a metric-name list
RefreshFailed(req_ret) ==
    req_ret /= NotCalled /\ (req_ret.raised \/ req_ret.value.t /= "list")

\* C12: metrics cache degradation: get_cached_metrics never fails to its caller; when
\* the refresh attempt fails for any reason (an unknown region included) it returns
\* the region's previously stored data if an entry exists, even if expired, and an
\* empty sequence otherwise.
C12_Degradation ==
    [][(call = Idle /\ call'.op = "get_cached_metrics") =>
          /\ ~outcome'.raised
          /\ RefreshFailed(inner') =>
                outcome' = Return(IF HoldsList(_metrics_cache, KeyOf(call'.region))
                                  THEN _metrics_cache[KeyOf(call'.region)].data
                                  ELSE JList(<<>>))]_vars

\* C13: stale entries are retained until successfully replaced: a key that holds a
\* metric-name list keeps holding one; an entry's data and timestamp change only when a
\* refresh for that region returns a metric-name list; a call that ends in the failure
\* fallback leaves the whole cache as it was before the call.
C13_StaleRetained ==
    [][(call = Idle /\ call'.op = "get_cached_metrics") =>
          /\ \A k \in DOMAIN _metrics_cache :
                HoldsList(_metrics_cache, k) => HoldsList(_metrics_cache', k)
          /\ \A k \in DOMAIN _metrics_cache' :
                (k \notin DOMAIN _metrics_cache \/ _metrics_cache'[k] /= _metrics_cache[k]) =>
                    /\ k = KeyOf(call'.region)
                    /\ inner' /= NotCalled
                    /\ ~inner'.raised
                    /\ inner'.value.t = "list"
          /\ RefreshFailed(inner') => _metrics_cache' = _metrics_cache]_vars

\* the key holds a metric-name list younger than the TTL
FreshList(c, k, t) == HoldsList(c, k) /\ t - c[k].timestamp < 300

-----------------------------------------------------------------------------
(* Pagination *)

\* two characters are the same letter, case aside
SameLetter(c, d) == c = d \/ {c, d} \in {{"a", "A"}, {"b", "B"}}

\* the name contains F case-insensitively; every name does when F is absent or empty
ContainsIgnoringCase(name, F) ==
    \/ F = None
    \/ \E i \in 0 .. (Len(name) - Len(F)) :
          \A j \in 1 .. Len(F) : SameLetter(name[i + j], F[j])

Min(a, b) == IF a < b THEN a ELSE b
Max(a, b) == IF a > b THEN a ELSE b

\* the page the claim describes for the list fetched, filter F, offset O and limit L
PageAsClaimed(result, names, F, O, L) ==
    LET Keep(name) == ContainsIgnoringCase(name, F)
        filtered == SelectSeq(names, Keep)
        filteredCount == Len(filtered)
        rest == Max(0, filteredCount - O)
        returned == IF L = NoLimit THEN rest ELSE Min(L, rest)
    IN  /\ result.total_count = filteredCount
        /\ result.returned_count = returned
        /\ result.metrics = [i \in 1 .. returned |-> filtered[O + i]]
        /\ result.has_more = (O + returned < filteredCount)

\* a list_metrics call returned a page
Paged == call.op = "list_metrics" /\ "offset" \in DOMAIN call /\ ~outcome.raised

\* C15 as stated: for every metric list, filter F, offset O and limit L (L absent meaning
\* no limit): total_count is the number of names containing F case-insensitively,
\* metrics is the run of the filtered list starting at index O, returned_count is
\* min(L, max(0, filteredCount - O)) and has_more is O + returned_count < filteredCount.
C15_PaginationAnyOffset ==
    Paged => PageAsClaimed(outcome.value, inner.value.v, call.filter_pattern,
                           call.offset, call.limit)

\* C15, amended: the same, for every offset O >= 0 and every limit L that is absent
\* or >= 0.
C15_Pagination ==
    (Paged /\ call.offset >= 0 /\ (call.limit = NoLimit \/ call.limit >= 0)) =>
        PageAsClaimed(outcome.value, inner.value.v, call.filter_pattern,
                      call.offset, call.limit)

\* a filtered list was cut in the middle: names were skipped, the page came back full
\* and more names remain
C15_Witness ==
    /\ Paged
    /\ call.filter_pattern \notin {None, <<>>}
    /\ call.offset > 0
    /\ call.limit /= NoLimit
    /\ outcome.value.returned_count = call.limit
    /\ outcome.value.returned_count > 0
    /\ outcome.value.total_count < Len(inner.value.v)
    /\ outcome.value.has_more

-----------------------------------------------------------------------------
(* Metadata *)

\* the value inside a payload: what is keyed under metadata, else what is keyed
\* under data, else the payload itself
InnerValue(payload) ==
    IF payload.t = "dict" /\ "metadata" \in DOMAIN payload.v THEN payload.v["metadata"]
    ELSE IF payload.t = "dict" /\ "data" \in DOMAIN payload.v THEN payload.v["data"]
    ELSE payload

\* C16: metadata normalization: get_metric_metadata always returns metadata as a
\* sequence: the inner value of the payload (keyed under metadata, keyed under data, or
\* the bare payload), a single mapping wrapped into a one-element sequence; so
\* {"data": [M]}, {"metadata": M} and bare M all normalize to [M].
C16_MetadataNormalized ==
    (call.op = "get_metric_metadata" /\ ~outcome.raised) =>
        /\ ~inner.raised
        /\ outcome.value.metadata.t = "list"
        /\ outcome.value.metadata = IF InnerValue(inner.value).t = "dict"
                                    THEN JList(<<InnerValue(inner.value)>>)
                                    ELSE InnerValue(inner.value)
        /\ inner.value \in {JDict("data" :> JList(<<JDict(Sample)>>)),
                            JDict("metadata" :> JDict(Sample)),
                            JDict(Sample)} =>
              outcome.value.metadata = JList(<<JDict(Sample)>>)

\* the payload {"metadata": M} came back as the one-element sequence [M]
C16_Witness ==
    /\ call.op = "get_metric_metadata"
    /\ ~outcome.raised
    /\ inner.value = JDict("metadata" :> JDict(Sample))
    /\ outcome.value.metadata = JList(<<JDict(Sample)>>)

-----------------------------------------------------------------------------
(* Health check *)

\* health_check was called for all regions, or for one
AllRegionsChecked == call.op = "health_check" /\ call.region \in {None, <<>>}
OneRegionChecked == call.op = "health_check" /\ call.region \notin {None, <<>>}

\* the GET was answered with a 2xx JSON success envelope carrying data
Answered(x) ==
    /\ x.response.kind = "response"
    /\ ~RaisesForStatus(x.response.status_code)
    /\ x.response.json_ok
    /\ "status" \in DOMAIN x.response.body
    /\ x.response.body["status"] = "success"
    /\ "data" \in DOMAIN x.response.body

\* the GETs sent to region n
GetsTo(n) == {i \in DOMAIN outbound : outbound[i].region = n}

\* the probe of region n failed: no GET to it was answered
ProbeFailed(n) == \A i \in GetsTo(n) : ~Answered(outbound[i])

\* C17: health_check with no region aggregates per region: the overall status is
\* "degraded" if and only if at least one configured region's probe fails and "healthy"
\* otherwise, and the per-region entries with prometheus_connectivity "degraded" are
\* exactly the regions whose probe failed, all others reporting "healthy".
C17_Aggregate ==
    AllRegionsChecked =>
        /\ outcome.value["status"] =
              IF \E n \in DOMAIN regions : ProbeFailed(n) THEN "degraded" ELSE "healthy"
        /\ \A n \in DOMAIN regions :
              outcome.value["regions"][n]["prometheus_connectivity"] =
                  IF ProbeFailed(n) THEN "degraded" ELSE "healthy"

\* two regions were checked, one probe failed and the other did not
C17_Witness ==
    /\ AllRegionsChecked
    /\ outcome.value["status"] = "degraded"
    /\ \E n, m \in DOMAIN regions :
          /\ outcome.value["regions"][n]["prometheus_connectivity"] = "degraded"
          /\ outcome.value["regions"][m]["prometheus_connectivity"] = "healthy"

\* C18: health_check with no region probes every configured region exactly once, a
\* failing probe never prevents the probes of the remaining regions, and the result
\* comes after all of them: the regions mapping has exactly one entry per configured
\* region.
C18_EveryRegionProbed ==
    AllRegionsChecked =>
        /\ DOMAIN inner = DOMAIN regions
        /\ DOMAIN outcome.value["regions"] = DOMAIN regions
        /\ \A i \in DOMAIN outbound : outbound[i].region \in DOMAIN regions
        /\ \A n \in DOMAIN regions :
              Cardinality(GetsTo(n)) = IF regions[n].url = <<>> THEN 0 ELSE 1

\* the first probe failed and the second region was probed all the same
C18_Witness ==
    /\ AllRegionsChecked
    /\ Len(outbound) = 2
    /\ ~Answered(outbound[1])
    /\ Answered(outbound[2])
    /\ DOMAIN outcome.value["regions"] = {outbound[1].region, outbound[2].region}

\* C19: health_check never fails structurally: for every region argument (absent,
\* configured, unknown), every probe outcome and every registry, the empty one included,
\* it returns a mapping with a status field in {healthy, degraded, unhealthy} and
\* propagates no exception.
C19_NeverFails ==
    call.op = "health_check" =>
        /\ ~outcome.raised
        /\ "status" \in DOMAIN outcome.value
        /\ outcome.value["status"] \in {"healthy", "degraded", "unhealthy"}

\* with no region configured, a region was asked for and the report is "unhealthy"
C19_Witness ==
    /\ call.op = "health_check"
    /\ DOMAIN regions = {}
    /\ call.region \notin {None, <<>>}
    /\ ~outcome.raised
    /\ outcome.value["status"] = "unhealthy"

\* C20: health_check for a requested region that is not configured returns status
\* "unhealthy" with the region-resolution error message, issues no probe request and
\* sets no prometheus_connectivity; for a configured region it probes just that region
\* once and reports its canonical name, with no regions mapping.
C20_RequestedRegion ==
    OneRegionChecked =>
        IF Matches(call.region) = {}
        THEN /\ outcome.value["status"] = "unhealthy"
             /\ "error" \in DOMAIN outcome.value
             /\ outcome.value["error"][1] =
                   "Region '{region}' is not configured. Available regions: {available_regions}"
             /\ outcome.value["error"][2] = call.region
             /\ outbound = <<>>
             /\ "prometheus_connectivity" \notin DOMAIN outcome.value
        ELSE /\ \A n \in Matches(call.region) :
                   /\ outcome.value["region"] = n
                   /\ Cardinality(GetsTo(n)) = IF regions[n].url = <<>> THEN 0 ELSE 1
                   /\ \A i \in DOMAIN outbound : outbound[i].region = n
             /\ inner /= NotCalled
             /\ "prometheus_connectivity" \in DOMAIN outcome.value
             /\ "regions" \notin DOMAIN outcome.value

\* a region outside a non-empty registry was asked for: "unhealthy", and nothing probed
C20_Witness ==
    /\ OneRegionChecked
    /\ DOMAIN regions /= {}
    /\ Matches(call.region) = {}
    /\ outcome.value["status"] = "unhealthy"
    /\ outbound = <<>>

-----------------------------------------------------------------------------
(* Concurrent cache lookups *)

\* the entry of key k is the (data, timestamp) pair one single refresh wrote: the data
\* some caller fetched for that key together with the clock that same caller read
WrittenByOneRefresh(k) ==
    \E c \in Callers :
        /\ in_flight[c].pc \in {"done", "failed"}
        /\ ~in_flight[c].req_ret.raised
        /\ in_flight[c].req_ret /= Return(<<>>)
        /\ KeyOf(in_flight[c].region) = k
        /\ _metrics_cache[k] = CacheEntry(in_flight[c].req_ret.value,
                                          in_flight[c].current_time)

EntriesWhole == \A k \in DOMAIN _metrics_cache : WrittenByOneRefresh(k)

\* C21: under concurrent get_cached_metrics calls for the same region (each reads the
\* clock, then fetches, then writes), every reachable cache entry is a (data, timestamp)
\* pair written by one single refresh, and an entry's timestamp never decreases: a
\* refresh that started earlier but finishes later does not replace an entry carrying a
\* newer timestamp with one carrying an older timestamp.
C21_TimestampNeverDecreases ==
    [][/\ EntriesWhole'
       /\ \A k \in DOMAIN _metrics_cache :
             /\ k \in DOMAIN _metrics_cache'
             /\ _metrics_cache'[k].timestamp >= _metrics_cache[k].timestamp]_vars

-----------------------------------------------------------------------------
(* Cache keys *)

\* the entry a region argument addresses: the lowercase name, the default region's name
\* for the absent argument
CanonicalKey(region) ==
    (IF region \in {None, <<>>} THEN default_region ELSE Lower(region)) \o <<"_metrics">>

\* C22: the metrics cache is keyed by canonical region: a get_cached_metrics call for
\* region r reads and writes only the entry of lowercase r and leaves the entries of all
\* other regions unchanged; every case variant of a name, and the absent region together
\* with the default region's name, address the same entry; and no operation other than
\* get_cached_metrics writes the cache.
C22_KeyedByCanonicalRegion ==
    [][/\ _metrics_cache' /= _metrics_cache =>
             call = Idle /\ call'.op = "get_cached_metrics"
       /\ (call = Idle /\ call'.op = "get_cached_metrics") =>
             LET k == CanonicalKey(call'.region)
             IN  /\ \A j \in (DOMAIN _metrics_cache \cup DOMAIN _metrics_cache') \ {k} :
                       /\ j \in DOMAIN _metrics_cache
                       /\ j \in DOMAIN _metrics_cache'
                       /\ _metrics_cache'[j] = _metrics_cache[j]
                 /\ FreshList(_metrics_cache, k, now) =>
                       outcome' = Return(_metrics_cache[k].data) /\ outbound' = <<>>
                 /\ ~outcome'.raised
                 /\ outcome'.value \in
                       {JList(<<>>)}
                       \cup (IF k \in DOMAIN _metrics_cache
                             THEN {_metrics_cache[k].data} ELSE {})
                       \cup (IF inner' /= NotCalled /\ ~inner'.raised
                             THEN {inner'.value} ELSE {})]_vars

\* with two regions cached under different data, a call without region was served from
\* the default region's entry
C22_Witness ==
    /\ call.op = "get_cached_metrics"
    /\ call.region = None
    /\ outbound = <<>>
    /\ Cardinality(DOMAIN _metrics_cache) = 2
    /\ \A j \in DOMAIN _metrics_cache : _metrics_cache[j].data.t = "list"
    /\ \E j \in DOMAIN _metrics_cache :
          _metrics_cache[j].data /= _metrics_cache[CanonicalKey(None)].data
    /\ outcome = Return(_metrics_cache[CanonicalKey(None)].data)

====
